---- MODULE Spec2Model ----
(***************************************************************************)
(* RFM analysis (src/rfm.py): get_rfm_values, get_rfm_score, get_rfm_agg.  *)
(*                                                                         *)
(* A pandas DataFrame is a function  column name -> column,  a column (a   *)
(* Series) a function  index label -> cell.  Every column of a table has   *)
(* the table's index as its domain.  A missing cell is NaN.  Metric cells  *)
(* are integers, score and bin cells are strings.                          *)
(*                                                                         *)
(* Quantiles are rationals: every quantile of fraction i/m is kept as its  *)
(* numerator over the denominator m (exact arithmetic, the value pandas'   *)
(* linear interpolation computes up to floating point rounding; rounding   *)
(* can change which tables have equal cut points, not what the code does   *)
(* with equal or with distinct cut points).                                *)
(***************************************************************************)
EXTENDS Integers, Sequences, FiniteSets, TLC

VARIABLES df,     \* the caller's table, the object passed as argument df
          df0,    \* the value of the caller's table when the call was made
          args,   \* the arguments of the call
          pc,     \* "call": an invocation is pending, "done", "raised"
          cur,    \* max_score of the pending (nested) invocation
          depth,  \* number of invocations of get_rfm_score made by the call
          ret,    \* the returned table
          err,    \* the raised exception
          out,    \* what the call printed
          calls,  \* 1, or 2 once the caller has repeated the call
          prev    \* what the previous call on this table returned

vars == <<df, df0, args, pc, cur, depth, ret, err, out, calls, prev>>

(* ------------------------------ bounds --------------------------------- *)
MaxRows == 3       \* rows of a metric table
MaxVal == 2        \* metric values are 0..MaxVal
MaxScore == 4      \* requested max_score is 1..MaxScore

(* --------------------------- program constants ------------------------- *)
RoundInfoVal == 3  \* round_info_val, its default

NaN == "NaN"
None == "None"
NoTable == [none |-> {}]
NoError == [kind |-> "none"]

(* ------------------------------ helpers -------------------------------- *)
Digit == <<"0", "1", "2", "3", "4", "5", "6", "7", "8", "9">>

\* str(n) of a non-negative integer
RECURSIVE Str(_)
Str(n) == IF n < 10 THEN Digit[n + 1] ELSE Str(n \div 10) \o Digit[(n % 10) + 1]

RECURSIVE Pow10(_)
Pow10(d) == IF d = 0 THEN 1 ELSE 10 * Pow10(d - 1)

\* round(num/den, RoundInfoVal), in units of 10^-RoundInfoVal (half to even)
RoundVal(num, den) ==
    LET s == num * Pow10(RoundInfoVal)
        q == s \div den
        r == s % den
    IN  IF 2 * r < den THEN q
        ELSE IF 2 * r > den THEN q + 1
        ELSE IF q % 2 = 0 THEN q ELSE q + 1

SeriesMin(vals) == CHOOSE v \in {vals[l] : l \in DOMAIN vals} :
                       \A l \in DOMAIN vals : v <= vals[l]
SeriesMax(vals) == CHOOSE v \in {vals[l] : l \in DOMAIN vals} :
                       \A l \in DOMAIN vals : v >= vals[l]

\* OrderStat reading the sorted column one place too far
OrderStatOneBased(vals, k) ==
    CHOOSE v \in {vals[l] : l \in DOMAIN vals} :
        LET k1 == IF k + 1 <= Cardinality(DOMAIN vals) - 1 THEN k + 1 ELSE k
        IN  /\ Cardinality({l \in DOMAIN vals : vals[l] < v}) <= k1
            /\ k1 < Cardinality({l \in DOMAIN vals : vals[l] <= v})

\* the k-th smallest value of the column, k = 0 .. n-1
OrderStat(vals, k) ==
    CHOOSE v \in {vals[l] : l \in DOMAIN vals} :
        /\ Cardinality({l \in DOMAIN vals : vals[l] < v}) <= k
        /\ k < Cardinality({l \in DOMAIN vals : vals[l] <= v})

\* vals.quantile(i/m) * m : linear interpolation between the two order
\* statistics around position (n-1)*i/m
QuantileNum(vals, i, m) ==
    LET n   == Cardinality(DOMAIN vals)
        pos == (n - 1) * i
        lo  == pos \div m
        fr  == pos % m
        a   == OrderStat(vals, lo)
        b   == OrderStat(vals, IF lo + 1 <= n - 1 THEN lo + 1 ELSE n - 1)
    IN  a * m + (b - a) * fr

\* quantiles = vals.quantile(quintile_list).tolist(), each times m
Quantiles(vals, m) == [i \in 1 .. (m - 1) |-> QuantileNum(vals, i, m)]

\* len(quantiles) != len(set(quantiles))
HasDuplicates(q) == Len(q) # Cardinality({q[i] : i \in DOMAIN q})

\* metric: the full name of the metric of a tag
Metric(score_name) ==
    IF score_name = "r" THEN "recency"
    ELSE IF score_name = "f" THEN "frequency"
    ELSE IF score_name = "m" THEN "monetary"
    ELSE None

\* ScoresList without the reversal for recency
ScoresListAscending(score_name, m) == [i \in 1 .. m |-> i]

\* scores_list, reversed for recency
ScoresList(score_name, m) ==
    IF score_name = "r" THEN [i \in 1 .. m |-> m + 1 - i] ELSE [i \in 1 .. m |-> i]

\* bins_cutoffs = [vals.min()] + quantiles + [vals.max()], each times m
BinsCutoffs(vals, m) ==
    IF m > 1 THEN <<SeriesMin(vals) * m>> \o Quantiles(vals, m) \o <<SeriesMax(vals) * m>>
    ELSE <<SeriesMin(vals), SeriesMax(vals)>>

\* bins=[bins_cutoffs[0]-1] + bins_cutoffs[1:-1] + [bins_cutoffs[-1]+1], times m
CutBins(vals, m) ==
    <<(SeriesMin(vals) - 1) * m>> \o Quantiles(vals, m) \o <<(SeriesMax(vals) + 1) * m>>

\* BinOf with bins closed on the left and open on the right (right=False)
BinOfLeftClosed(x, bins) ==
    LET in(k) == bins[k] <= x /\ x < bins[k + 1]
    IN  IF \E k \in 1 .. (Len(bins) - 1) : in(k)
        THEN CHOOSE k \in 1 .. (Len(bins) - 1) : in(k)
        ELSE 0

\* the bin of pd.cut(..., right=True, include_lowest=True) that holds x, 0 if none
BinOf(x, bins) ==
    LET in(k) == /\ (bins[k] < x \/ (k = 1 /\ x = bins[1]))
                 /\ x <= bins[k + 1]
    IN  IF \E k \in 1 .. (Len(bins) - 1) : in(k)
        THEN CHOOSE k \in 1 .. (Len(bins) - 1) : in(k)
        ELSE 0

\* pd.cut(x=vals, bins, labels).astype(str): a Series on the index of vals
Cut(vals, bins, labels, m) ==
    [l \in DOMAIN vals |->
        IF BinOf(vals[l] * m, bins) = 0 THEN "nan"
        ELSE Str(labels[BinOf(vals[l] * m, bins)])]

\* pd.Series(['1' for _ in range(len(vals))]): a Series on a fresh RangeIndex
OnesSeries(vals) == [l \in 0 .. (Cardinality(DOMAIN vals) - 1) |-> "1"]

\* scores, as computed by the invocation that assigns with max_score = m
Scores(vals, score_name, m) ==
    IF m > 1 THEN Cut(vals, CutBins(vals, m), ScoresList(score_name, m), m)
    ELSE OnesSeries(vals)

\* str([round(lo, round_info_val), round(hi, round_info_val)])
BinStr(lo, hi, den) ==
    "[" \o Str(RoundVal(lo, den)) \o ", " \o Str(RoundVal(hi, den)) \o "]"

\* bins_for_scores: str(score) -> the range of its bin
BinsForScores(vals, score_name, m) ==
    LET sl  == IF m > 1 THEN ScoresList(score_name, m) ELSE <<1>>
        den == IF m > 1 THEN m ELSE 1
        bc  == BinsCutoffs(vals, m)
    IN  [s \in {Str(sl[i]) : i \in DOMAIN sl} |->
            LET i == CHOOSE i \in DOMAIN sl : Str(sl[i]) = s
            IN  BinStr(bc[i], bc[i + 1], den)]

\* scores.replace(bins_for_scores)
Replace(scores, mapping) ==
    [l \in DOMAIN scores |->
        IF scores[l] \in DOMAIN mapping THEN mapping[scores[l]] ELSE scores[l]]

Index(d) == DOMAIN d[CHOOSE c \in DOMAIN d : TRUE]

\* df[name] = series: the series is aligned on the table's index, a label
\* the series lacks becomes NaN
SetColumn(d, name, series) ==
    [c \in DOMAIN d \cup {name} |->
        IF c = name
        THEN [l \in Index(d) |-> IF l \in DOMAIN series THEN series[l] ELSE NaN]
        ELSE d[c]]

\* Assigned that writes the bin column whether it is asked for or not
AssignedWithBins(d, a, m) ==
    LET vals   == d[a.score_column]
        scores == Scores(vals, a.score_name, m)
    IN  SetColumn(SetColumn(d, a.score_name, scores), a.score_name \o "_bin",
                  Replace(scores, BinsForScores(vals, a.score_name, m)))

\* the table after lines 183-195
Assigned(d, a, m) ==
    LET vals   == d[a.score_column]
        scores == Scores(vals, a.score_name, m)
        d1     == SetColumn(d, a.score_name, scores)
    IN  IF a.add_score_bins
        THEN SetColumn(d1, a.score_name \o "_bin",
                       Replace(scores, BinsForScores(vals, a.score_name, m)))
        ELSE d1

\* the dictionary QuantileDuplicate is raised with
QuintileDict(vals, score_name, m) ==
    [column |-> Metric(score_name) \o "_quantiles",
     values |-> [i \in 1 .. (m - 1) |-> RoundVal(Quantiles(vals, m)[i], m)]]

(* --------------------------- get_rfm_score ----------------------------- *)
\* (score_column, score_name) pairs of the calls
ScoreCalls == {<<"recency", "r">>, <<"frequency", "f">>, <<"monetary", "m">>,
               <<"recency", "r_score">>}
Offsets == {0, 1}

ScoreTables ==
    UNION {UNION {[off .. (off + n - 1) -> 0 .. MaxVal] : off \in Offsets} :
           n \in 1 .. MaxRows}

\* the frequencies 1,1,1,1,2,2,2,10 of the spec's scenario
ScenarioVals == [l \in 0 .. 7 |-> IF l < 4 THEN 1 ELSE IF l < 7 THEN 2 ELSE 10]

ScoreInit ==
    /\ \E v \in ScoreTables \cup {ScenarioVals}, c \in ScoreCalls,
          ms \in 1 .. MaxScore, bins \in BOOLEAN, auto \in BOOLEAN, info \in BOOLEAN :
          /\ df = (c[1] :> v)
          /\ args = [fn |-> "get_rfm_score", score_column |-> c[1], score_name |-> c[2],
                     max_score |-> ms, add_score_bins |-> bins,
                     auto_max_score_adjust |-> auto, print_info |-> info]
          /\ cur = ms
    /\ df0 = df
    /\ pc = "call"
    /\ depth = 0
    /\ ret = NoTable
    /\ err = NoError
    /\ out = <<>>
    /\ calls = 1
    /\ prev = NoTable

Vals == df[args.score_column]

Duplicated == cur > 1 /\ HasDuplicates(Quantiles(Vals, cur))

\* Decremented that steps by two
DecrementedByTwo(m) == m - 2

\* max_score of the nested call
Decremented(m) == m - 1

\* lines 135-147: duplicate quantiles, automatic adjustment: the nested call
AutoAdjust ==
    /\ pc = "call" /\ args.fn = "get_rfm_score"
    /\ Duplicated /\ args.auto_max_score_adjust
    /\ cur' = Decremented(cur)
    /\ depth' = depth + 1
    /\ out' = Append(out, [kind |-> "adjust", from |-> cur, to |-> cur - 1])
    /\ UNCHANGED <<df, df0, args, pc, ret, err, calls, prev>>

\* lines 148-157: duplicate quantiles, no adjustment: QuantileDuplicate
RaiseQuantileDuplicate ==
    /\ pc = "call" /\ args.fn = "get_rfm_score"
    /\ Duplicated /\ ~args.auto_max_score_adjust
    /\ Metric(args.score_name) # None
    /\ pc' = "raised"
    /\ depth' = depth + 1
    /\ err' = [kind |-> "QuantileDuplicate",
               value |-> QuintileDict(Vals, args.score_name, cur)]
    /\ UNCHANGED <<df, df0, args, cur, ret, out, calls, prev>>

\* line 153: metric + '_quantiles' with metric = None raises TypeError
RaiseTypeError ==
    /\ pc = "call" /\ args.fn = "get_rfm_score"
    /\ Duplicated /\ ~args.auto_max_score_adjust
    /\ Metric(args.score_name) = None
    /\ pc' = "raised"
    /\ depth' = depth + 1
    /\ err' = [kind |-> "TypeError"]
    /\ UNCHANGED <<df, df0, args, cur, ret, out, calls, prev>>

\* lines 159-202: the scores are assigned and the table is returned
Assign ==
    /\ pc = "call" /\ args.fn = "get_rfm_score"
    /\ ~Duplicated
    /\ df' = Assigned(df, args, cur)
    /\ ret' = df'
    /\ pc' = "done"
    /\ depth' = depth + 1
    /\ out' = IF args.print_info
              THEN Append(out, [kind |-> "bins_for_scores",
                                value |-> BinsForScores(Vals, args.score_name, cur)])
              ELSE out
    /\ UNCHANGED <<df0, args, cur, err, calls, prev>>

\* the caller makes the same call once more, on the table as it is now
CallAgain ==
    /\ pc = "done"
    /\ calls = 1
    /\ calls' = 2
    /\ prev' = ret
    /\ df0' = df
    /\ pc' = "call"
    /\ cur' = IF args.fn = "get_rfm_score" THEN args.max_score ELSE cur
    /\ depth' = 0
    /\ out' = <<>>
    /\ ret' = NoTable
    /\ UNCHANGED <<df, args, err>>

ScoreNext == AutoAdjust \/ RaiseQuantileDuplicate \/ RaiseTypeError \/ Assign \/ CallAgain

SpecScore == ScoreInit /\ [][ScoreNext]_vars

(* --------------------------- get_rfm_values ---------------------------- *)
TicksPerDay == 2   \* a day, in the unit the timestamps are counted in
MaxTx == 2         \* rows of a transaction table
MaxTick == 4       \* timestamps are 0..MaxTick
MaxHorizon == 1    \* time_horizon is 0..MaxHorizon days

Customers == {1, 2}
Amounts == {1, 3}
TimeNames == {"order_approved_at", "purchase_date"}

RECURSIVE SumOver(_, _)
SumOver(col, ls) ==
    IF ls = {} THEN 0
    ELSE LET l == CHOOSE x \in ls : TRUE IN col[l] + SumOver(col, ls \ {l})

MinOver(col, ls) == CHOOSE v \in {col[l] : l \in ls} : \A l \in ls : v <= col[l]

\* start_time = now - pd.Timedelta(days=time_horizon)
StartTime(a) == a.now - a.time_horizon * TicksPerDay

\* Query with the lower bound of the window excluded
QueryOpenBelow(d, a) == {l \in Index(d) : StartTime(a) < d[a.time][l] /\ d[a.time][l] <= a.now}

\* df.query('@start_time <= time and time <= @now'): the labels kept
Query(d, a) == {l \in Index(d) : StartTime(a) <= d[a.time][l] /\ d[a.time][l] <= a.now}

\* (now - df[time]).dt.days on the kept rows
DaysBefore(d, a) == [l \in Query(d, a) |-> (a.now - d[a.time][l]) \div TicksPerDay]

\* new_columns: the name a column of the aggregate is renamed to
NewColumns(c, a) ==
    IF c = a.money THEN "monetary"
    ELSE IF c = "order_approved_at" THEN "frequency"
    ELSE IF c = "days_before" THEN "recency"
    ELSE c

\* df.groupby(unit_id, as_index=False).agg(agg_exp): one row per unit_id of
\* the kept rows, in ascending order of unit_id, on a fresh RangeIndex
GroupByAgg(d, a) ==
    LET kept   == Query(d, a)
        ids    == {d[a.unit_id][l] : l \in kept}
        idAt(k) == CHOOSE c \in ids : Cardinality({x \in ids : x < c}) = k
        rows(k) == {l \in kept : d[a.unit_id][l] = idAt(k)}
        pos    == 0 .. (Cardinality(ids) - 1)
    IN  [c \in {a.unit_id, "days_before", a.time, a.money} |->
            IF c = a.unit_id THEN [k \in pos |-> idAt(k)]
            ELSE IF c = "days_before" THEN [k \in pos |-> MinOver(DaysBefore(d, a), rows(k))]
            ELSE IF c = a.time THEN [k \in pos |-> Cardinality(rows(k))]
            ELSE [k \in pos |-> SumOver(d[a.money], rows(k))]]

\* .rename(columns=new_columns)
Rename(t, a) ==
    [c \in {NewColumns(x, a) : x \in DOMAIN t} |->
        t[CHOOSE x \in DOMAIN t : NewColumns(x, a) = c]]

RfmValues(d, a) == Rename(GroupByAgg(d, a), a)

ValuesInit ==
    /\ \E ids \in UNION {[0 .. (n - 1) -> Customers] : n \in 1 .. MaxTx},
          tn \in TimeNames, nw \in (MaxTick - 1) .. MaxTick, h \in 0 .. MaxHorizon :
          \E ts \in [DOMAIN ids -> 0 .. MaxTick], am \in [DOMAIN ids -> Amounts] :
             /\ df = [c \in {"customer_id", "payment_value", tn} |->
                         IF c = "customer_id" THEN ids
                         ELSE IF c = "payment_value" THEN am ELSE ts]
             /\ args = [fn |-> "get_rfm_values", unit_id |-> "customer_id",
                        money |-> "payment_value", time |-> tn,
                        now |-> nw, time_horizon |-> h]
    /\ df0 = df
    /\ pc = "call"
    /\ cur = 0
    /\ depth = 0
    /\ ret = NoTable
    /\ err = NoError
    /\ out = <<>>
    /\ calls = 1
    /\ prev = NoTable

\* lines 37-58: the whole call; the filtered table is a new object, the
\* caller's table is not written
GetRfmValues ==
    /\ pc = "call" /\ args.fn = "get_rfm_values"
    /\ ret' = RfmValues(df, args)
    /\ pc' = "done"
    /\ UNCHANGED <<df, df0, args, cur, depth, err, out, calls, prev>>

ValuesNext == GetRfmValues \/ CallAgain

SpecValues == ValuesInit /\ [][ValuesNext]_vars

(* ----------------------------- get_rfm_agg ------------------------------ *)
MaxSegRows == 2    \* rows of a scored table

\* the scores of the scored tables: "1" and "11" (a max_score above 9)
AggScoreNums == {1, 11}
AggScores == {Str(n) : n \in AggScoreNums}

\* the characters of str(n), as digits
RECURSIVE Digits(_)
Digits(n) == IF n < 10 THEN <<n>> ELSE Digits(n \div 10) \o <<n % 10>>

\* the characters of a score string
Chars(s) == Digits(CHOOSE n \in AggScoreNums : Str(n) = s)

\* s < t for strings given by their characters (Python's str order)
RECURSIVE LexLess(_, _)
LexLess(s, t) ==
    IF t = <<>> THEN FALSE
    ELSE IF s = <<>> THEN TRUE
    ELSE IF Head(s) # Head(t) THEN Head(s) < Head(t)
    ELSE LexLess(Tail(s), Tail(t))

\* the range column get_rfm_score adds with add_score_bins: one range per score
ScoreBin(tag, s) == tag \o "_bin of score " \o s

\* df[r_name] + df[f_name] + df[m_name]
RfmColumn(d, a) == [l \in Index(d) |-> d[a.r_name][l] \o d[a.f_name][l] \o d[a.m_name][l]]

RfmChars(d, a, l) == Chars(d[a.r_name][l]) \o Chars(d[a.f_name][l]) \o Chars(d[a.m_name][l])

\* the columns grouped by
GroupColumns(a) ==
    IF a.use_bins THEN <<"rfm", a.r_bin_name, a.f_bin_name, a.m_bin_name>> ELSE <<"rfm">>

\* the group key of a row
KeyOf(d, a, l) == [i \in DOMAIN GroupColumns(a) |-> d[GroupColumns(a)[i]][l]]

\* the tables .groupby(...)[unit_id].count().rename(...).sort_values('rfm',
\* ascending=False).reset_index(drop=True) can return: one row per group in
\* descending order of rfm; the order of groups of equal rfm is the sort's
GroupCount(d, a) ==
    LET keys == {KeyOf(d, a, l) : l \in Index(d)}
        rows(key) == {l \in Index(d) : KeyOf(d, a, l) = key}
        chars(key) == RfmChars(d, a, CHOOSE l \in rows(key) : TRUE)
        pos == 0 .. (Cardinality(keys) - 1)
        orders == {o \in [pos -> keys] :
                      /\ \A i, j \in pos : i # j => o[i] # o[j]
                      /\ \A i, j \in pos : i < j => ~LexLess(chars(o[i]), chars(o[j]))}
    IN  {[c \in {GroupColumns(a)[i] : i \in DOMAIN GroupColumns(a)} \cup {"amount"} |->
            IF c = "amount"
            THEN [k \in pos |-> Cardinality({l \in rows(o[k]) : l \in DOMAIN d[a.unit_id]})]
            ELSE [k \in pos |->
                    o[k][CHOOSE i \in DOMAIN GroupColumns(a) : GroupColumns(a)[i] = c]]] :
         o \in orders}

AggInit ==
    /\ \E n \in 1 .. MaxSegRows, ub \in BOOLEAN :
          \E r \in [0 .. (n - 1) -> AggScores], f \in [0 .. (n - 1) -> AggScores],
             m \in [0 .. (n - 1) -> AggScores] :
             /\ df = [c \in {"customer_id", "r", "f", "m", "r_bin", "f_bin", "m_bin"} |->
                         IF c = "customer_id" THEN [l \in 0 .. (n - 1) |-> l + 1]
                         ELSE IF c = "r" THEN r
                         ELSE IF c = "f" THEN f
                         ELSE IF c = "m" THEN m
                         ELSE IF c = "r_bin" THEN [l \in 0 .. (n - 1) |-> ScoreBin("r", r[l])]
                         ELSE IF c = "f_bin" THEN [l \in 0 .. (n - 1) |-> ScoreBin("f", f[l])]
                         ELSE [l \in 0 .. (n - 1) |-> ScoreBin("m", m[l])]]
             /\ args = [fn |-> "get_rfm_agg", unit_id |-> "customer_id",
                        r_name |-> "r", f_name |-> "f", m_name |-> "m", use_bins |-> ub,
                        r_bin_name |-> "r_bin", f_bin_name |-> "f_bin",
                        m_bin_name |-> "m_bin"]
    /\ df0 = df
    /\ pc = "call"
    /\ cur = 0
    /\ depth = 0
    /\ ret = NoTable
    /\ err = NoError
    /\ out = <<>>
    /\ calls = 1
    /\ prev = NoTable

\* lines 250-266: the whole call; line 250 writes the rfm column into the
\* caller's table
GetRfmAgg ==
    /\ pc = "call" /\ args.fn = "get_rfm_agg"
    /\ df' = SetColumn(df, "rfm", RfmColumn(df, args))
    /\ ret' \in GroupCount(df', args)
    /\ pc' = "done"
    /\ UNCHANGED <<df0, args, cur, depth, err, out, calls, prev>>

AggNext == GetRfmAgg \/ CallAgain

SpecAgg == AggInit /\ [][AggNext]_vars

(* ------------------------- the three stages ---------------------------- *)
Init == ValuesInit \/ ScoreInit \/ AggInit

Next == GetRfmValues \/ AutoAdjust \/ RaiseQuantileDuplicate \/ RaiseTypeError
        \/ Assign \/ GetRfmAgg \/ CallAgain

Spec == Init /\ [][Next]_vars

(* ============================== claims ================================= *)
Returned(fn) == pc = "done" /\ args.fn = fn

(* ---- get_rfm_values ---- *)
\* the in-window transactions of customer c, read off the caller's table
InWindow(c) ==
    {l \in Index(df0) :
        /\ df0[args.unit_id][l] = c
        /\ args.now - args.time_horizon * TicksPerDay <= df0[args.time][l]
        /\ df0[args.time][l] <= args.now}

WholeDays(l) == (args.now - df0[args.time][l]) \div TicksPerDay

\* the column of the result that holds the count (its name is claim C9's subject)
CountColumn == CHOOSE c \in DOMAIN ret \ {args.unit_id, "recency", "monetary"} : TRUE

\* C1: get_rfm_values returns exactly one row for each customer with a
\* transaction in [now - time_horizon days, now] and none for the others;
\* recency is the least number of whole days between an in-window timestamp
\* and now, frequency the number of in-window transactions, monetary the sum
\* of their amounts: out-of-window transactions contribute to none of them.
C1_WindowedMetrics ==
    Returned("get_rfm_values") =>
        /\ {args.unit_id, "recency", "monetary"} \subseteq DOMAIN ret
        /\ Cardinality(DOMAIN ret) = 4
        /\ \A c \in Customers :
              Cardinality({k \in Index(ret) : ret[args.unit_id][k] = c})
                  = IF InWindow(c) # {} THEN 1 ELSE 0
        /\ \A k \in Index(ret) :
              LET c == ret[args.unit_id][k]
              IN  /\ \E l \in InWindow(c) : ret["recency"][k] = WholeDays(l)
                  /\ \A l \in InWindow(c) : ret["recency"][k] <= WholeDays(l)
                  /\ ret[CountColumn][k] = Cardinality(InWindow(c))
                  /\ ret["monetary"][k] = SumOver(df0[args.money], InWindow(c))

\* a customer with a transaction in the window and one outside it, whose row
\* counts the one transaction
C1_Witness ==
    /\ Returned("get_rfm_values")
    /\ \E k \in Index(ret) :
          LET c == ret[args.unit_id][k]
          IN  /\ Cardinality(InWindow(c)) = 1
              /\ \E l \in Index(df0) : df0[args.unit_id][l] = c /\ l \notin InWindow(c)
              /\ ret[CountColumn][k] = 1

\* C9: for every name of the time column the result has, besides the
\* customer-id column, exactly the columns recency, frequency and monetary.
C9_MetricColumns ==
    Returned("get_rfm_values") =>
        DOMAIN ret = {args.unit_id, "recency", "frequency", "monetary"}

(* ---- get_rfm_score ---- *)
ScoreCol == df[args.score_name]
Vals0 == df0[args.score_column]
PairwiseDistinct(q) == \A i, j \in DOMAIN q : i # j => q[i] # q[j]
Finished == args.fn = "get_rfm_score" /\ pc \in {"done", "raised"}

\* the number a score string is the str() of
Num(s) == CHOOSE n \in 1 .. (MaxScore + 1) : Str(n) = s

\* C2: after a call that returns, every row's score is one of "1" ..
\* str(max_score), no row is left without a score, and the set of scores is
\* not empty.
C2_EveryRowScored ==
    Returned("get_rfm_score") =>
        /\ \A l \in Index(df) : ScoreCol[l] \in {Str(i) : i \in 1 .. args.max_score}
        /\ {ScoreCol[l] : l \in Index(df)} # {}

\* C3: QuantileDuplicate is raised exactly when max_score > 1, there is no
\* automatic adjustment and two cut points are equal; it carries the
\* (rounded) quantile values, and the table is then left as it was.
C3_DuplicateError ==
    Finished =>
        LET q   == Quantiles(Vals0, args.max_score)
            dup == /\ args.max_score > 1
                   /\ ~args.auto_max_score_adjust
                   /\ ~PairwiseDistinct(q)
        IN  /\ (pc = "raised" /\ err.kind = "QuantileDuplicate") <=> dup
            /\ dup => /\ df = df0
                      /\ err.value.values = [i \in DOMAIN q |-> RoundVal(q[i], args.max_score)]

\* C4: with automatic adjustment the call never raises, every nested call
\* has max_score one less than its caller and max_score = 1 never retries,
\* so there are at most max_score invocations; the scores are assigned with
\* the largest max_score' <= max_score whose cut points are pairwise
\* distinct (1 has no cut points).
C4_AdjustTerminates ==
    (args.fn = "get_rfm_score" /\ args.auto_max_score_adjust) =>
        /\ pc # "raised" /\ err = NoError
        /\ pc = "call" => cur = args.max_score - depth /\ cur >= 1
        /\ pc = "done" =>
              /\ depth <= args.max_score
              /\ depth = args.max_score - cur + 1
              /\ 1 <= cur /\ cur <= args.max_score
              /\ PairwiseDistinct(Quantiles(Vals0, cur))
              /\ \A m \in (cur + 1) .. args.max_score :
                    ~PairwiseDistinct(Quantiles(Vals0, m))

\* a call that retried twice before it assigned
C4_Witness ==
    /\ Returned("get_rfm_score") /\ args.auto_max_score_adjust
    /\ depth = 3 /\ cur = args.max_score - 2

\* C5: of two scored rows with distinct values, the one with the higher
\* value has the score not below the other's for f and m, the one with the
\* lower value for r; the rows of the lowest bin have score 1 for f and m and
\* the max_score the scores were assigned with for r.
C5_Monotone ==
    (Returned("get_rfm_score") /\ args.score_name \in {"r", "f", "m"}) =>
        LET scored == {l \in Index(df) : ScoreCol[l] # NaN}
        IN  /\ \A a, b \in scored :
                  Vals0[a] < Vals0[b] =>
                      IF args.score_name = "r"
                      THEN Num(ScoreCol[a]) >= Num(ScoreCol[b])
                      ELSE Num(ScoreCol[b]) >= Num(ScoreCol[a])
            /\ \A a \in scored :
                  Vals0[a] = SeriesMin(Vals0) =>
                      Num(ScoreCol[a]) = IF args.score_name = "r" THEN cur ELSE 1

\* recency scored on three levels: a more recent row with a higher score
C5_Witness ==
    /\ Returned("get_rfm_score") /\ args.score_name = "r" /\ cur = 3
    /\ \E a, b \in Index(df) :
          /\ Vals0[a] < Vals0[b]
          /\ ScoreCol[a] = "3" /\ ScoreCol[b] = "1"

Scenario == args.fn = "get_rfm_score" /\ Vals0 = ScenarioVals
            /\ args.max_score = 3 /\ args.score_name = "f"

\* C8 as stated: on the frequencies 1,1,1,1,2,2,2,10 with max_score = 3 the
\* two cut points coincide: without adjustment the call raises
\* QuantileDuplicate, with adjustment it assigns at max_score = 2 and the
\* scores take exactly two values.
C8_ScenarioDuplicates ==
    (Scenario /\ pc \in {"done", "raised"}) =>
        IF args.auto_max_score_adjust
        THEN /\ pc = "done" /\ cur = 2
             /\ Cardinality({ScoreCol[l] : l \in Index(df)}) = 2
        ELSE pc = "raised" /\ err.kind = "QuantileDuplicate"

\* C8 amended: on these frequencies the cut points of max_score = 3 are 1
\* and 2, which differ: with or without adjustment the call returns without
\* a retry, assigns at max_score = 3, and the scores take three values.
C8_ScenarioDistinct ==
    (Scenario /\ pc \in {"done", "raised"}) =>
        /\ Quantiles(Vals0, 3) = <<1 * 3, 2 * 3>>
        /\ pc = "done" /\ err = NoError
        /\ cur = 3 /\ depth = 1
        /\ {ScoreCol[l] : l \in Index(df)} = {"1", "2", "3"}
        /\ \A l \in Index(df) :
              ScoreCol[l] = IF Vals0[l] = 1 THEN "1" ELSE IF Vals0[l] = 2 THEN "2" ELSE "3"

C8_Witness ==
    /\ Scenario /\ pc = "done" /\ ~args.auto_max_score_adjust
    /\ ScoreCol[7] = "3"

(* ---- get_rfm_agg ---- *)
\* the segment key of a row of the scored table
Segment(l) == df0[args.r_name][l] \o df0[args.f_name][l] \o df0[args.m_name][l]

\* C6: get_rfm_agg returns one record per distinct observed concatenation
\* r+f+m, the amount of a record is the number of rows with that key, and
\* the amounts add up to the number of rows of the scored table.
C6_OneRecordPerSegment ==
    (Returned("get_rfm_agg") /\ calls = 1) =>
        /\ \A l \in Index(df0) :
              Cardinality({k \in Index(ret) : ret["rfm"][k] = Segment(l)}) = 1
        /\ \A k \in Index(ret) :
              ret["amount"][k]
                  = Cardinality({l \in Index(df0) : Segment(l) = ret["rfm"][k]})
        /\ SumOver(ret["amount"], Index(ret)) = Cardinality(Index(df0))

(* ---- the three stages ---- *)
\* the rows of a table, whatever their order
Rows(t) == {[c \in DOMAIN t |-> t[c][k]] : k \in Index(t)}

\* the columns a call writes into the caller's table
Written ==
    IF args.fn = "get_rfm_score"
    THEN {args.score_name}
         \cup (IF args.add_score_bins THEN {args.score_name \o "_bin"} ELSE {})
    ELSE IF args.fn = "get_rfm_agg" THEN {"rfm"}
    ELSE {}

\* C10 as stated: a stage leaves the caller's table as it was and returns a
\* separate table.
C10_TableUnchanged == pc = "done" => (df = df0 /\ ret # df)

\* C10 amended: get_rfm_values leaves the caller's table as it was and
\* returns a separate table; get_rfm_score writes the score column (and the
\* bin column when asked) into the caller's table and returns that table;
\* get_rfm_agg writes the rfm column into the caller's table and returns a
\* separate table; no other column is added or changed; the same call made
\* once more returns the same result (get_rfm_agg: the same records) and
\* leaves the table as the first call left it.
C10_FrameEffects ==
    pc = "done" =>
        /\ DOMAIN df = DOMAIN df0 \cup Written
        /\ \A c \in DOMAIN df0 \ Written : df[c] = df0[c]
        /\ (args.fn = "get_rfm_score") <=> (ret = df)
        /\ calls = 1 => \A c \in Written : c \notin DOMAIN df0
        /\ calls = 2 =>
              /\ df = df0
              /\ IF args.fn = "get_rfm_agg"
                 THEN DOMAIN ret = DOMAIN prev /\ Rows(ret) = Rows(prev)
                 ELSE ret = prev

\* a second call of get_rfm_score, asked for the bin column, has returned
C10_Witness ==
    /\ Returned("get_rfm_score") /\ calls = 2 /\ args.add_score_bins
    /\ DOMAIN df = {args.score_column, args.score_name, args.score_name \o "_bin"}

====
